---- MODULE Spec2Model ----
(***************************************************************************)
(* Speech services of app/services/elevenlabs.py: the STT chain            *)
(* (ElevenLabs -> Groq Whisper) and the TTS chain (ElevenLabs -> Edge-TTS) *)
(* with the process-wide flag _elevenlabs_blocked.                         *)
(*                                                                         *)
(* A request is a coroutine; it runs without interruption between two      *)
(* awaits, so every action below is the code between two awaits.  The      *)
(* vendors are the environment: a vendor step serves an outstanding call   *)
(* and leaves its reply in flight, a return step resumes the coroutine     *)
(* on that reply.                                                          *)
(***************************************************************************)
EXTENDS Integers, Sequences, FiniteSets, TLC

\* Number of requests of a behaviour; request r is the r-th to arrive.
NumReq == 2
\* Longest chunk stream the Edge-TTS service produces.
MaxChunks == 1
\* Longest filename, in tokens (a "." or a run of other characters).
MaxNameLen == 3

Requests == 1 .. NumReq

VARIABLES
    elevenlabs_blocked,     \* _elevenlabs_blocked
    ELEVENLABS_API_KEY,     \* TRUE iff app.config gives a non-empty key
    ELEVENLABS_VOICE_ID,    \* TRUE iff app.config gives a non-empty voice id
    GROQ_API_KEY,           \* TRUE iff app.config gives a non-empty key
    op,                     \* entry point of each request
    pc,                     \* where each request's coroutine stands
    resp,                   \* HTTP reply in flight to each request
    stream,                 \* Edge-TTS chunk stream in flight to each request
    result,                 \* value returned by the entry point
    primCalls,              \* calls of the request served by ElevenLabs
    secCalls,               \* calls of the request served by Groq / Edge-TTS
    warnings,               \* chains whose "blocked" warning has been logged
    filename,               \* the filename argument of each transcribe request
    mime,                   \* MIME type of the file part of each request's last POST
    lateCalls               \* calls ElevenLabs served while the flag was already True

config == <<ELEVENLABS_API_KEY, ELEVENLABS_VOICE_ID, GROQ_API_KEY>>
vars == <<elevenlabs_blocked, ELEVENLABS_API_KEY, ELEVENLABS_VOICE_ID, GROQ_API_KEY,
          op, pc, resp, stream, result, primCalls, secCalls, warnings,
          filename, mime, lateCalls>>

-----------------------------------------------------------------------------
(* Values *)

\* Python's None and a returned str / bytes value (a sequence of codes).
None == [some |-> FALSE, val |-> <<>>]
Some(v) == [some |-> TRUE, val |-> v]

\* Python truthiness of a str / bytes value: `if transcript:`, `if audio_bytes:`.
Truthy(v) == Len(v) > 0

\* Transcripts and audio bodies the vendors may send.
Contents == {<<>>, <<1>>, <<2>>}

NoResp == [err |-> "pending", status |-> 0, marker |-> FALSE, json |-> "none",
           content |-> <<>>]

\* httpx.RequestError: the network failed or the 30 s timeout expired.
TransportErrors ==
    {[err |-> e, status |-> 0, marker |-> FALSE, json |-> "none", content |-> <<>>] :
        e \in {"network", "timeout"}}

\* A reply with an error status; marker: the body contains "unusual_activity".
ErrorReplies ==
    {[err |-> "none", status |-> s, marker |-> m, json |-> "none", content |-> <<>>] :
        s \in {401, 500}, m \in BOOLEAN}

\* A 200 reply of an STT vendor.  json: what resp.json() finds in the body,
\*   "object"    a JSON object with a "text" member (content),
\*   "no_text"   a JSON object without "text",
\*   "nonobject" valid JSON that is no object,
\*   "invalid"   an empty or malformed body.
SttOkReplies ==
    {[err |-> "none", status |-> 200, marker |-> FALSE, json |-> "object", content |-> c] :
        c \in Contents}
    \cup {[err |-> "none", status |-> 200, marker |-> FALSE, json |-> j, content |-> <<>>] :
        j \in {"no_text", "nonobject", "invalid"}}
    \cup {[err |-> "none", status |-> 200, marker |-> TRUE, json |-> "object",
           content |-> <<1>>]}

\* A 200 reply of the TTS vendor: the body is the raw audio.
TtsOkReplies ==
    {[err |-> "none", status |-> 200, marker |-> FALSE, json |-> "raw", content |-> c] :
        c \in Contents}
    \cup {[err |-> "none", status |-> 200, marker |-> TRUE, json |-> "raw",
           content |-> <<1>>]}

SttReplies == TransportErrors \cup ErrorReplies \cup SttOkReplies
TtsReplies == TransportErrors \cup ErrorReplies \cup TtsOkReplies

\* Chunks of communicate.stream(): audio data or metadata.
Chunks == {[type |-> "audio", data |-> <<1>>], [type |-> "WordBoundary", data |-> <<9>>]}

SeqsUpTo(S, n) == UNION {[1 .. k -> S] : k \in 0 .. n}

NoStream == [state |-> "pending", chunks |-> <<>>]

\* A stream of at most MaxChunks events: chunks, then the end of the stream
\* ("ok") or an exception in place of a further chunk ("fails").
EdgeStreams ==
    {[state |-> "ok", chunks |-> cs] : cs \in SeqsUpTo(Chunks, MaxChunks)}
    \cup {[state |-> "fails", chunks |-> cs] : cs \in SeqsUpTo(Chunks, MaxChunks - 1)}

-----------------------------------------------------------------------------
(* The provider calls, as functions of the vendor's reply *)

\* resp.raise_for_status(): TRUE iff it raises httpx.HTTPStatusError.
raise_for_status(rsp) == rsp.status \div 100 # 2

\* Mutants of is_blocking: the marker alone; the status alone; every error.
is_blocking_marker_only(rsp) == rsp.marker
is_blocking_status_only(rsp) == rsp.status = 401
is_blocking_any_error(rsp) == TRUE

\* The blocking test of the HTTPStatusError handlers.
is_blocking(rsp) == rsp.marker \/ rsp.status = 401

\* resp.json().get("text", ""): TRUE iff it raises (json.JSONDecodeError on an
\* empty or malformed body, AttributeError on JSON that is no object); neither
\* is an httpx.HTTPStatusError or an httpx.RequestError.
json_get_raises(rsp) == rsp.json \in {"nonobject", "invalid"}

json_get_text(rsp) == IF rsp.json = "object" THEN rsp.content ELSE <<>>

\* What a provider call does: exc iff an exception leaves the function, ret the
\* value it returns, blocked the flag it leaves, warned iff it logs the
\* "blocked" warning.
Outcome(exc, ret, blocked, warned) ==
    [exc |-> exc, ret |-> ret, blocked |-> blocked, warned |-> warned]

\* Mutant of _elevenlabs_stt: reads a member the reply never has, so that
\* the transcript is always the default "".
elevenlabs_stt_wrong_member(rsp, blocked) ==
    IF rsp.err # "none" THEN Outcome(FALSE, None, blocked, FALSE)
    ELSE IF rsp.status \div 100 # 2
        THEN Outcome(FALSE, None, (rsp.marker \/ rsp.status = 401) \/ blocked,
                     rsp.marker \/ rsp.status = 401)
    ELSE IF rsp.json \in {"nonobject", "invalid"} THEN Outcome(TRUE, None, blocked, FALSE)
    ELSE Outcome(FALSE, None, blocked, FALSE)

\* Mutant of _elevenlabs_stt: the transcript is returned without `if transcript:`.
elevenlabs_stt_returns_empty(rsp, blocked) ==
    IF rsp.err # "none" THEN Outcome(FALSE, None, blocked, FALSE)
    ELSE IF rsp.status \div 100 # 2
        THEN Outcome(FALSE, None, (rsp.marker \/ rsp.status = 401) \/ blocked,
                     rsp.marker \/ rsp.status = 401)
    ELSE IF rsp.json \in {"nonobject", "invalid"} THEN Outcome(TRUE, None, blocked, FALSE)
    ELSE Outcome(FALSE, Some(IF rsp.json = "object" THEN rsp.content ELSE <<>>), blocked, FALSE)

\* _elevenlabs_stt, from the reply to its POST.
elevenlabs_stt(rsp, blocked) ==
    IF rsp.err # "none" THEN Outcome(FALSE, None, blocked, FALSE)
    ELSE IF raise_for_status(rsp)
        THEN Outcome(FALSE, None, IF is_blocking(rsp) THEN TRUE ELSE blocked, is_blocking(rsp))
    ELSE IF json_get_raises(rsp) THEN Outcome(TRUE, None, blocked, FALSE)
    ELSE IF Truthy(json_get_text(rsp)) THEN Outcome(FALSE, Some(json_get_text(rsp)), blocked, FALSE)
    ELSE Outcome(FALSE, None, blocked, FALSE)

\* Mutant of _groq_whisper_stt: the HTTPStatusError handler of _elevenlabs_stt,
\* copied with its write of the flag.
groq_whisper_stt_blocks(rsp, blocked) ==
    IF rsp.err # "none" THEN Outcome(FALSE, None, blocked, FALSE)
    ELSE IF rsp.status \div 100 # 2
        THEN Outcome(FALSE, None, (rsp.marker \/ rsp.status = 401) \/ blocked, FALSE)
    ELSE IF rsp.json \in {"nonobject", "invalid"} THEN Outcome(TRUE, None, blocked, FALSE)
    ELSE IF rsp.json = "object" /\ Len(rsp.content) > 0
        THEN Outcome(FALSE, Some(rsp.content), blocked, FALSE)
    ELSE Outcome(FALSE, None, blocked, FALSE)

\* _groq_whisper_stt: the same, without any use of the flag.
groq_whisper_stt(rsp, blocked) ==
    IF rsp.err # "none" THEN Outcome(FALSE, None, blocked, FALSE)
    ELSE IF raise_for_status(rsp) THEN Outcome(FALSE, None, blocked, FALSE)
    ELSE IF json_get_raises(rsp) THEN Outcome(TRUE, None, blocked, FALSE)
    ELSE IF Truthy(json_get_text(rsp)) THEN Outcome(FALSE, Some(json_get_text(rsp)), blocked, FALSE)
    ELSE Outcome(FALSE, None, blocked, FALSE)

\* Mutant of _elevenlabs_tts: a success clears the flag.
elevenlabs_tts_clears_flag(rsp, blocked) ==
    IF rsp.err # "none" THEN Outcome(FALSE, None, blocked, FALSE)
    ELSE IF rsp.status \div 100 # 2
        THEN Outcome(FALSE, None, (rsp.marker \/ rsp.status = 401) \/ blocked,
                     rsp.marker \/ rsp.status = 401)
    ELSE Outcome(FALSE, Some(rsp.content), FALSE, FALSE)

\* _elevenlabs_tts: a success returns resp.content whatever its length.
elevenlabs_tts(rsp, blocked) ==
    IF rsp.err # "none" THEN Outcome(FALSE, None, blocked, FALSE)
    ELSE IF raise_for_status(rsp)
        THEN Outcome(FALSE, None, IF is_blocking(rsp) THEN TRUE ELSE blocked, is_blocking(rsp))
    ELSE Outcome(FALSE, Some(rsp.content), blocked, FALSE)

\* buffer.getvalue() after the loop: the data of the audio chunks, in order.
RECURSIVE audio_of(_)
audio_of(chunks) ==
    IF chunks = <<>> THEN <<>>
    ELSE IF Head(chunks).type = "audio" THEN Head(chunks).data \o audio_of(Tail(chunks))
    ELSE audio_of(Tail(chunks))

\* _edge_tts: every exception is caught.
edge_tts(st, blocked) ==
    IF st.state = "fails" THEN Outcome(FALSE, None, blocked, FALSE)
    ELSE IF Truthy(audio_of(st.chunks)) THEN Outcome(FALSE, Some(audio_of(st.chunks)), blocked, FALSE)
    ELSE Outcome(FALSE, None, blocked, FALSE)

-----------------------------------------------------------------------------
(* The MIME type of the uploaded file *)

\* A filename is a sequence of tokens: "." or a run of characters without ".".
Dot == "."
Stems == {"audio", "note", "xyz", "FLAC", "wav", "mp3", "webm", "ogg", "oga", "opus",
          "m4a", "flac"}
Filenames == SeqsUpTo(Stems \cup {Dot}, MaxNameLen)

\* The default of the filename parameter, "audio.wav".
DefaultName == <<"audio", Dot, "wav">>

\* "." in filename
has_dot(name) == \E i \in 1 .. Len(name) : name[i] = Dot

\* filename.rsplit(".", 1)[-1]: what follows the last ".".
RECURSIVE rsplit_last(_)
rsplit_last(name) ==
    IF name = <<>> \/ name[Len(name)] = Dot THEN <<>>
    ELSE Append(rsplit_last(SubSeq(name, 1, Len(name) - 1)), name[Len(name)])

\* str.lower() of a token, and of a sequence of tokens.
lower_token(t) == IF t = "FLAC" THEN "flac" ELSE t
lower(ts) == [i \in 1 .. Len(ts) |-> lower_token(ts[i])]

\* mime_map of _elevenlabs_stt and of _groq_whisper_stt.
mime_map ==
    (<<"wav">> :> "audio/wav") @@ (<<"mp3">> :> "audio/mpeg") @@ (<<"webm">> :> "audio/webm")
    @@ (<<"ogg">> :> "audio/ogg") @@ (<<"oga">> :> "audio/ogg") @@ (<<"opus">> :> "audio/ogg")
    @@ (<<"m4a">> :> "audio/mp4") @@ (<<"flac">> :> "audio/flac")

\* ext = filename.rsplit(".", 1)[-1].lower() if "." in filename else "wav"
ext_of(name) == IF has_dot(name) THEN lower(rsplit_last(name)) ELSE <<"wav">>

\* Mutant of mime_type: a filename without "." gets no extension at all.
mime_type_no_wav_default(name) ==
    IF has_dot(name) /\ lower(rsplit_last(name)) \in DOMAIN mime_map
    THEN mime_map[lower(rsplit_last(name))] ELSE "audio/ogg"

\* mime_type = mime_map.get(ext, "audio/ogg")
mime_type(name) ==
    IF ext_of(name) \in DOMAIN mime_map THEN mime_map[ext_of(name)] ELSE "audio/ogg"

-----------------------------------------------------------------------------
(* Steps of a coroutine *)

Goto(r, label) ==
    /\ pc' = [pc EXCEPT ![r] = label]
    /\ UNCHANGED result

Return(r, v) ==
    /\ pc' = [pc EXCEPT ![r] = "done"]
    /\ result' = [result EXCEPT ![r] = v]

\* An exception leaves the entry point.
Raise(r) ==
    /\ pc' = [pc EXCEPT ![r] = "raised"]
    /\ UNCHANGED result

\* Requests arrive in the order of their numbers.
Arrives(r) ==
    /\ pc[r] = "idle"
    /\ \A q \in 1 .. (r - 1) : pc[q] # "idle"

\* Mutant of the Groq gate: the call is made without a key.
groq_gate_without_key(r) == Goto(r, "stt_secondary")

\* transcribe_audio from `if GROQ_API_KEY:` on, before the await.
groq_gate(r) ==
    IF GROQ_API_KEY THEN Goto(r, "stt_secondary") ELSE Return(r, None)

\* text_to_speech, step 2, before the await.
edge_gate(r) == Goto(r, "tts_secondary")

\* Mutant of the gate of transcribe_audio: the flag is not consulted.
stt_gate_ignores_flag(blocked) == ELEVENLABS_API_KEY

\* The gate of transcribe_audio.
stt_gate(blocked) == ELEVENLABS_API_KEY /\ ~blocked

\* Mutants of the gate of text_to_speech: the flag is not consulted; the
\* voice identifier is not consulted.
tts_gate_ignores_flag(blocked) == ELEVENLABS_API_KEY /\ ELEVENLABS_VOICE_ID
tts_gate_without_voice(blocked) == ~blocked /\ ELEVENLABS_API_KEY

\* The gate of text_to_speech.
tts_gate(blocked) == ~blocked /\ ELEVENLABS_API_KEY /\ ELEVENLABS_VOICE_ID

-----------------------------------------------------------------------------
(* Actions *)

Init ==
    /\ elevenlabs_blocked = FALSE
    /\ ELEVENLABS_API_KEY \in BOOLEAN
    /\ ELEVENLABS_VOICE_ID \in BOOLEAN
    /\ GROQ_API_KEY \in BOOLEAN
    /\ op = [r \in Requests |-> "none"]
    /\ pc = [r \in Requests |-> "idle"]
    /\ resp = [r \in Requests |-> NoResp]
    /\ stream = [r \in Requests |-> NoStream]
    /\ result = [r \in Requests |-> None]
    /\ primCalls = [r \in Requests |-> 0]
    /\ secCalls = [r \in Requests |-> 0]
    /\ warnings = {}
    /\ filename = [r \in Requests |-> DefaultName]
    /\ mime = [r \in Requests |-> "none"]
    /\ lateCalls = 0

\* transcribe_audio is entered and runs to its first await (or to its end).
transcribe_audio(r) ==
    /\ Arrives(r)
    /\ op' = [op EXCEPT ![r] = "transcribe"]
    /\ IF stt_gate(elevenlabs_blocked) THEN Goto(r, "stt_primary") ELSE groq_gate(r)
    /\ UNCHANGED <<elevenlabs_blocked, config, resp, stream, primCalls, secCalls,
                 warnings, filename, mime, lateCalls>>

\* ElevenLabs serves the POST of _elevenlabs_stt.
elevenlabs_stt_post(r) ==
    /\ pc[r] = "stt_primary"
    /\ resp[r] = NoResp
    /\ \E rsp \in SttReplies : resp' = [resp EXCEPT ![r] = rsp]
    /\ primCalls' = [primCalls EXCEPT ![r] = @ + 1]
    /\ mime' = [mime EXCEPT ![r] = mime_type(filename[r])]
    /\ lateCalls' = IF elevenlabs_blocked THEN lateCalls + 1 ELSE lateCalls
    /\ UNCHANGED <<elevenlabs_blocked, config, op, pc, stream, result, secCalls,
                 warnings, filename>>

\* Mutant of the step below: a failed primary attempt is tried again.
elevenlabs_stt_return_retries(r) ==
    /\ pc[r] = "stt_primary"
    /\ resp[r] # NoResp
    /\ LET out == elevenlabs_stt(resp[r], elevenlabs_blocked) IN
        /\ elevenlabs_blocked' = out.blocked
        /\ warnings' = IF out.warned THEN warnings \cup {"stt"} ELSE warnings
        /\ IF out.exc THEN Raise(r)
           ELSE IF out.ret # None THEN Return(r, out.ret)
           ELSE Goto(r, "stt_primary")
    /\ resp' = [resp EXCEPT ![r] = NoResp]
    /\ UNCHANGED <<config, op, stream, primCalls, secCalls, filename, mime, lateCalls>>

\* _elevenlabs_stt resumes on the reply; transcribe_audio goes on with its value.
elevenlabs_stt_return(r) ==
    /\ pc[r] = "stt_primary"
    /\ resp[r] # NoResp
    /\ LET out == elevenlabs_stt(resp[r], elevenlabs_blocked) IN
        /\ elevenlabs_blocked' = out.blocked
        /\ warnings' = IF out.warned THEN warnings \cup {"stt"} ELSE warnings
        /\ IF out.exc THEN Raise(r)
           ELSE IF out.ret # None THEN Return(r, out.ret)
           ELSE groq_gate(r)
    /\ resp' = [resp EXCEPT ![r] = NoResp]
    /\ UNCHANGED <<config, op, stream, primCalls, secCalls, filename, mime, lateCalls>>

\* Groq serves the POST of _groq_whisper_stt.
groq_whisper_stt_post(r) ==
    /\ pc[r] = "stt_secondary"
    /\ resp[r] = NoResp
    /\ \E rsp \in SttReplies : resp' = [resp EXCEPT ![r] = rsp]
    /\ secCalls' = [secCalls EXCEPT ![r] = @ + 1]
    /\ mime' = [mime EXCEPT ![r] = mime_type(filename[r])]
    /\ UNCHANGED <<elevenlabs_blocked, config, op, pc, stream, result, primCalls,
                 warnings, filename, lateCalls>>

\* _groq_whisper_stt resumes on the reply; transcribe_audio ends.
groq_whisper_stt_return(r) ==
    /\ pc[r] = "stt_secondary"
    /\ resp[r] # NoResp
    /\ LET out == groq_whisper_stt(resp[r], elevenlabs_blocked) IN
        /\ elevenlabs_blocked' = out.blocked
        /\ warnings' = IF out.warned THEN warnings \cup {"stt"} ELSE warnings
        /\ IF out.exc THEN Raise(r)
           ELSE IF out.ret # None THEN Return(r, out.ret)
           ELSE Return(r, None)
    /\ resp' = [resp EXCEPT ![r] = NoResp]
    /\ UNCHANGED <<config, op, stream, primCalls, secCalls, filename, mime, lateCalls>>

\* text_to_speech is entered and runs to its first await.
text_to_speech(r) ==
    /\ Arrives(r)
    /\ op' = [op EXCEPT ![r] = "synthesize"]
    /\ IF tts_gate(elevenlabs_blocked) THEN Goto(r, "tts_primary") ELSE edge_gate(r)
    /\ UNCHANGED <<elevenlabs_blocked, config, resp, stream, primCalls, secCalls,
                 warnings, filename, mime, lateCalls>>

\* ElevenLabs serves the POST of _elevenlabs_tts.
elevenlabs_tts_post(r) ==
    /\ pc[r] = "tts_primary"
    /\ resp[r] = NoResp
    /\ \E rsp \in TtsReplies : resp' = [resp EXCEPT ![r] = rsp]
    /\ primCalls' = [primCalls EXCEPT ![r] = @ + 1]
    /\ lateCalls' = IF elevenlabs_blocked THEN lateCalls + 1 ELSE lateCalls
    /\ UNCHANGED <<elevenlabs_blocked, config, op, pc, stream, result, secCalls,
                 warnings, filename, mime>>

\* _elevenlabs_tts resumes on the reply; text_to_speech goes on with its value.
elevenlabs_tts_return(r) ==
    /\ pc[r] = "tts_primary"
    /\ resp[r] # NoResp
    /\ LET out == elevenlabs_tts(resp[r], elevenlabs_blocked) IN
        /\ elevenlabs_blocked' = out.blocked
        /\ warnings' = IF out.warned THEN warnings \cup {"tts"} ELSE warnings
        /\ IF out.exc THEN Raise(r)
           ELSE IF out.ret # None THEN Return(r, out.ret)
           ELSE edge_gate(r)
    /\ resp' = [resp EXCEPT ![r] = NoResp]
    /\ UNCHANGED <<config, op, stream, primCalls, secCalls, filename, mime, lateCalls>>

\* The Edge-TTS service serves communicate.stream().
edge_tts_stream(r) ==
    /\ pc[r] = "tts_secondary"
    /\ stream[r] = NoStream
    /\ \E st \in EdgeStreams : stream' = [stream EXCEPT ![r] = st]
    /\ secCalls' = [secCalls EXCEPT ![r] = @ + 1]
    /\ UNCHANGED <<elevenlabs_blocked, config, op, pc, resp, result, primCalls, warnings,
                 filename, mime, lateCalls>>

\* _edge_tts has consumed the stream; text_to_speech ends.
edge_tts_return(r) ==
    /\ pc[r] = "tts_secondary"
    /\ stream[r] # NoStream
    /\ LET out == edge_tts(stream[r], elevenlabs_blocked) IN
        /\ elevenlabs_blocked' = out.blocked
        /\ warnings' = IF out.warned THEN warnings \cup {"tts"} ELSE warnings
        /\ IF out.exc THEN Raise(r)
           ELSE IF out.ret # None THEN Return(r, out.ret)
           ELSE Return(r, None)
    /\ stream' = [stream EXCEPT ![r] = NoStream]
    /\ UNCHANGED <<config, op, resp, primCalls, secCalls, filename, mime, lateCalls>>

Next ==
    \E r \in Requests :
        \/ transcribe_audio(r)
        \/ elevenlabs_stt_post(r)
        \/ elevenlabs_stt_return(r)
        \/ groq_whisper_stt_post(r)
        \/ groq_whisper_stt_return(r)
        \/ text_to_speech(r)
        \/ elevenlabs_tts_post(r)
        \/ elevenlabs_tts_return(r)
        \/ edge_tts_stream(r)
        \/ edge_tts_return(r)

Spec == Init /\ [][Next]_vars

\* One transcribe request with any filename, both STT vendors configured.
InitMime ==
    /\ elevenlabs_blocked = FALSE
    /\ ELEVENLABS_API_KEY = TRUE
    /\ ELEVENLABS_VOICE_ID = TRUE
    /\ GROQ_API_KEY = TRUE
    /\ op = [r \in Requests |-> "none"]
    /\ pc = [r \in Requests |-> "idle"]
    /\ resp = [r \in Requests |-> NoResp]
    /\ stream = [r \in Requests |-> NoStream]
    /\ result = [r \in Requests |-> None]
    /\ primCalls = [r \in Requests |-> 0]
    /\ secCalls = [r \in Requests |-> 0]
    /\ warnings = {}
    /\ \E name \in Filenames :
            filename = [r \in Requests |-> IF r = 1 THEN name ELSE DefaultName]
    /\ mime = [r \in Requests |-> "none"]
    /\ lateCalls = 0

NextMime ==
    \E r \in {1} :
        \/ transcribe_audio(r)
        \/ elevenlabs_stt_post(r)
        \/ elevenlabs_stt_return(r)
        \/ groq_whisper_stt_post(r)
        \/ groq_whisper_stt_return(r)

\* The steps of request r once it has arrived.  Every vendor call ends: the
\* HTTP calls by their reply or by the 30 s timeout, and the event loop
\* resumes a coroutine whose await has completed.
RequestStep(r) ==
    \/ elevenlabs_stt_post(r)
    \/ elevenlabs_stt_return(r)
    \/ groq_whisper_stt_post(r)
    \/ groq_whisper_stt_return(r)
    \/ elevenlabs_tts_post(r)
    \/ elevenlabs_tts_return(r)
    \/ edge_tts_stream(r)
    \/ edge_tts_return(r)

SpecFair == Init /\ [][Next]_vars /\ \A r \in Requests : WF_vars(RequestStep(r))

SpecMime == InitMime /\ [][NextMime]_vars

\* One request more than in Spec, every vendor configured, and the traffic
\* with the primary vendor alone: a request that falls through
\* to its secondary provider is not followed further.
RaceRequests == 1 .. (NumReq + 1)

InitRace ==
    /\ elevenlabs_blocked = FALSE
    /\ ELEVENLABS_API_KEY = TRUE
    /\ ELEVENLABS_VOICE_ID = TRUE
    /\ GROQ_API_KEY = TRUE
    /\ op = [r \in RaceRequests |-> "none"]
    /\ pc = [r \in RaceRequests |-> "idle"]
    /\ resp = [r \in RaceRequests |-> NoResp]
    /\ stream = [r \in RaceRequests |-> NoStream]
    /\ result = [r \in RaceRequests |-> None]
    /\ primCalls = [r \in RaceRequests |-> 0]
    /\ secCalls = [r \in RaceRequests |-> 0]
    /\ warnings = {}
    /\ filename = [r \in RaceRequests |-> DefaultName]
    /\ mime = [r \in RaceRequests |-> "none"]
    /\ lateCalls = 0

NextRace ==
    \E r \in RaceRequests :
        \/ transcribe_audio(r)
        \/ elevenlabs_stt_post(r)
        \/ elevenlabs_stt_return(r)
        \/ text_to_speech(r)
        \/ elevenlabs_tts_post(r)
        \/ elevenlabs_tts_return(r)

SpecRace == InitRace /\ [][NextRace]_vars

-----------------------------------------------------------------------------
(* Steps and replies the properties speak about *)

\* The step in which request r resumes on the reply of the primary vendor.
PrimarySttReturns(r) == pc[r] = "stt_primary" /\ resp[r] # NoResp /\ resp'[r] = NoResp
PrimaryTtsReturns(r) == pc[r] = "tts_primary" /\ resp[r] # NoResp /\ resp'[r] = NoResp
PrimaryReturns(r) == PrimarySttReturns(r) \/ PrimaryTtsReturns(r)

\* The step in which request r enters an entry point.
TranscribeStarts(r) == pc[r] = "idle" /\ op'[r] = "transcribe"
SynthesizeStarts(r) == pc[r] = "idle" /\ op'[r] = "synthesize"

\* An HTTP reply arrived and its status is a success / an error status.
SuccessStatus(rsp) == rsp.err = "none" /\ rsp.status \in 200 .. 299
ErrorStatus(rsp) == rsp.err = "none" /\ rsp.status \notin 200 .. 299

\* After the step, request r stands where the chain goes on after a failed
\* primary attempt: at the secondary provider, or (STT without a Groq key) at
\* the end of the chain with an absent result.
FallsThrough(r) ==
    IF op[r] = "synthesize" THEN pc'[r] = "tts_secondary"
    ELSE IF GROQ_API_KEY THEN pc'[r] = "stt_secondary"
    ELSE pc'[r] = "done" /\ result'[r] = None

\* A request past its primary stage is not served by the primary any more,
\* and a finished request stays as it is.
PastPrimary(r) ==
    /\ pc[r] \in {"stt_secondary", "tts_secondary", "done", "raised"}
            => primCalls'[r] = primCalls[r]
    /\ pc[r] \in {"done", "raised"}
            => pc'[r] = pc[r] /\ result'[r] = result[r] /\ secCalls'[r] = secCalls[r]

-----------------------------------------------------------------------------
(* Properties *)

\* C1: when the primary STT call of a transcribe request (key present, flag
\* false at the gate) returns a non-empty transcript, the request returns
\* exactly that transcript and the secondary STT provider is never called
\* during the request.
C1_Step(r) ==
    /\ (/\ PrimarySttReturns(r)
        /\ SuccessStatus(resp[r])
        /\ resp[r].json = "object"
        /\ resp[r].content # <<>>)
            => /\ pc'[r] = "done"
               /\ result'[r] = Some(resp[r].content)
               /\ secCalls'[r] = 0
    /\ pc'[r] = "stt_primary" => ELEVENLABS_API_KEY /\ (pc[r] = "idle" => ~elevenlabs_blocked)
    /\ PastPrimary(r)
C1_PrimaryTranscriptWins == [][\A r \in Requests : C1_Step(r)]_vars

C1_Witness ==
    \E r \in Requests :
        /\ op[r] = "transcribe" /\ pc[r] = "done"
        /\ primCalls[r] = 1 /\ secCalls[r] = 0
        /\ result[r] = Some(<<2>>)

\* C2: when the primary STT call of a transcribe request returns HTTP 401,
\* the request goes on with the secondary STT step, and every transcribe
\* request that starts once that reply has been handled makes no call to
\* the primary: it goes straight to the secondary step.
C2_Step(r) ==
    /\ (PrimarySttReturns(r) /\ resp[r].err = "none" /\ resp[r].status = 401)
            => "stt" \in warnings' /\ FallsThrough(r)
    /\ "stt" \in warnings => "stt" \in warnings'
    /\ ("stt" \in warnings /\ TranscribeStarts(r))
            => /\ primCalls'[r] = 0
               /\ IF GROQ_API_KEY THEN pc'[r] = "stt_secondary"
                  ELSE pc'[r] = "done" /\ result'[r] = None
    /\ PastPrimary(r)
C2_Http401BlocksLaterTranscribes == [][\A r \in Requests : C2_Step(r)]_vars

C2_Witness ==
    /\ "stt" \in warnings
    /\ ELEVENLABS_API_KEY
    /\ \E q, r \in Requests :
        /\ q < r
        /\ op[q] = "transcribe" /\ primCalls[q] = 1 /\ secCalls[q] = 1 /\ pc[q] = "done"
        /\ op[r] = "transcribe" /\ primCalls[r] = 0 /\ secCalls[r] = 1 /\ pc[r] = "done"
        /\ result[r] # None

\* C3: no exception ever propagates out of transcribe or synthesize: whatever
\* the vendors answer, a request never ends by raising.
C3_NoExceptionPropagates == \A r \in Requests : pc[r] # "raised"

\* C4: in a synthesize request in which step 1 yields no audio (primary not
\* called, or its reply is anything but a success with a non-empty body), the
\* secondary TTS provider is called, and if its stream yields non-empty audio
\* the request returns exactly those bytes.
C4_Step(r) ==
    /\ SynthesizeStarts(r) /\ pc'[r] # "tts_primary" => pc'[r] = "tts_secondary"
    /\ (PrimaryTtsReturns(r) /\ ~(SuccessStatus(resp[r]) /\ resp[r].content # <<>>))
            => pc'[r] = "tts_secondary"
    /\ pc[r] = "tts_secondary" /\ pc'[r] # "tts_secondary"
            => /\ secCalls[r] = 1
               /\ pc'[r] = "done"
               /\ (stream[r].state = "ok" /\ audio_of(stream[r].chunks) # <<>>)
                    => result'[r] = Some(audio_of(stream[r].chunks))
C4_SecondaryTtsAfterStep1 == [][\A r \in Requests : C4_Step(r)]_vars

\* C5: synthesize never returns an empty byte sequence: when neither TTS
\* provider yields non-empty audio the result is absent.
C5_NoEmptyAudio ==
    \A r \in Requests :
        op[r] = "synthesize" /\ pc[r] = "done" => result[r] # Some(<<>>)

\* C6: primaryBlocked is false initially, and once it is true it stays true:
\* no step of any request resets it.
C6_BlockedMonotone ==
    /\ ~elevenlabs_blocked
    /\ [][elevenlabs_blocked => elevenlabs_blocked']_vars

C6_Witness ==
    /\ elevenlabs_blocked
    /\ \A r \in Requests : pc[r] = "done" /\ primCalls[r] = 1
    /\ \E r \in Requests : result[r] # None /\ secCalls[r] = 0

\* C7 as stated: a primary call that receives HTTP 401, or a reply whose body
\* contains the marker whatever its status, leaves primaryBlocked true and
\* falls through to the next provider.
C7_Original_Step(r) ==
    (PrimaryReturns(r) /\ resp[r].err = "none" /\ (resp[r].status = 401 \/ resp[r].marker))
        => elevenlabs_blocked' /\ FallsThrough(r)
C7_Original == [][\A r \in Requests : C7_Original_Step(r)]_vars

\* C7, amended: a primary call (STT or TTS) that receives HTTP 401, or a reply
\* with an HTTP error status whose body contains the marker, leaves
\* primaryBlocked true and falls through to the next provider; nothing is
\* surfaced to the caller.
C7_Step(r) ==
    (/\ PrimaryReturns(r)
     /\ resp[r].err = "none"
     /\ (resp[r].status = 401 \/ (ErrorStatus(resp[r]) /\ resp[r].marker)))
        => elevenlabs_blocked' /\ FallsThrough(r)
C7_BlockingReplySetsFlag == [][\A r \in Requests : C7_Step(r)]_vars

C7_Witness ==
    /\ elevenlabs_blocked
    /\ warnings = {"stt", "tts"}
    /\ \E q, r \in Requests :
        /\ op[q] = "transcribe" /\ pc[q] = "stt_secondary" /\ primCalls[q] = 1
        /\ op[r] = "synthesize" /\ pc[r] = "tts_secondary" /\ primCalls[r] = 1

\* C8: a primary call (STT or TTS) that fails with a transport error, a
\* timeout, or a non-401 error status whose body lacks the marker leaves
\* primaryBlocked as it was and falls through to the next provider.
C8_Step(r) ==
    (/\ PrimaryReturns(r)
     /\ \/ resp[r].err \in {"network", "timeout"}
        \/ ErrorStatus(resp[r]) /\ resp[r].status # 401 /\ ~resp[r].marker)
        => elevenlabs_blocked' = elevenlabs_blocked /\ FallsThrough(r)
C8_OtherFailuresDoNotBlock == [][\A r \in Requests : C8_Step(r)]_vars

C8_Witness ==
    /\ ~elevenlabs_blocked
    /\ \E q, r \in Requests :
        /\ op[q] = "synthesize" /\ pc[q] = "tts_secondary" /\ primCalls[q] = 1
        /\ op[r] = "synthesize" /\ pc[r] = "done" /\ primCalls[r] = 1 /\ secCalls[r] = 1

\* C9: the flag is shared by the chains: once a primary TTS call has received
\* a blocking reply no later transcribe request calls the primary STT, and
\* once a primary STT call has received a blocking reply no later synthesize
\* request calls the primary TTS.
C9_Step(r) ==
    /\ (PrimaryReturns(r) /\ ErrorStatus(resp[r]) /\ (resp[r].status = 401 \/ resp[r].marker))
            => (IF op[r] = "synthesize" THEN "tts" ELSE "stt") \in warnings'
    /\ warnings \subseteq warnings'
    /\ ("tts" \in warnings /\ TranscribeStarts(r))
            => pc'[r] \in {"stt_secondary", "done"} /\ primCalls'[r] = 0
    /\ ("stt" \in warnings /\ SynthesizeStarts(r))
            => pc'[r] = "tts_secondary" /\ primCalls'[r] = 0
    /\ PastPrimary(r)
C9_FlagSharedByChains == [][\A r \in Requests : C9_Step(r)]_vars

C9_Witness ==
    /\ ELEVENLABS_API_KEY /\ ELEVENLABS_VOICE_ID
    /\ \/ /\ warnings = {"tts"}
          /\ \E r \in Requests :
                op[r] = "transcribe" /\ pc[r] = "done" /\ primCalls[r] = 0 /\ secCalls[r] = 1
       \/ /\ warnings = {"stt"}
          /\ \E r \in Requests :
                op[r] = "synthesize" /\ pc[r] = "done" /\ primCalls[r] = 0 /\ secCalls[r] = 1

\* C10: with neither STT provider configured, every transcribe request
\* returns absent and no vendor is ever called for it.
C10_NoSttConfigured ==
    (~ELEVENLABS_API_KEY /\ ~GROQ_API_KEY) =>
        \A r \in Requests :
            op[r] = "transcribe" =>
                /\ pc[r] = "done" /\ result[r] = None
                /\ primCalls[r] = 0 /\ secCalls[r] = 0
                /\ resp[r] = NoResp

C10_Witness ==
    /\ ~ELEVENLABS_API_KEY /\ ~GROQ_API_KEY
    /\ \A r \in Requests : op[r] = "transcribe" /\ pc[r] = "done"

\* The extension of a filename as the spec's table reads it: the text after
\* the last ".", letter case aside; a filename without "." has none.
HasExtension(name, e) ==
    \E i \in 1 .. Len(name) :
        /\ name[i] = Dot
        /\ \A j \in (i + 1) .. Len(name) : name[j] # Dot
        /\ e = SubSeq(name, i + 1, Len(name))

\* The lookup table of the spec, as pairs <<extension, MIME type>>.
MimeTable ==
    {<<"wav", "audio/wav">>, <<"mp3", "audio/mpeg">>, <<"webm", "audio/webm">>,
     <<"ogg", "audio/ogg">>, <<"oga", "audio/ogg">>, <<"opus", "audio/ogg">>,
     <<"m4a", "audio/mp4">>, <<"flac", "audio/flac">>, <<"FLAC", "audio/flac">>}

InTable(name, m) == \E p \in MimeTable : HasExtension(name, <<p[1]>>) /\ m = p[2]
Known(name) == \E p \in MimeTable : HasExtension(name, <<p[1]>>)

\* A POST of request r carried a file part.
Uploaded(r) == mime[r] # "none"

\* C11 as stated: the MIME type sent is the table value when the extension
\* is in the table and audio/ogg in every other case, filenames without an
\* extension included.
C11_Original ==
    \A r \in DOMAIN mime :
        Uploaded(r) =>
            IF Known(filename[r]) THEN InTable(filename[r], mime[r])
            ELSE mime[r] = "audio/ogg"

\* C11, amended: the MIME type sent is the table value when the text after
\* the last "." of the filename is in the table (letter case aside),
\* audio/wav when the filename contains no ".", and audio/ogg in every other
\* case; note.flac gives audio/flac and note.xyz gives audio/ogg.
C11_MimeOfFilename ==
    \A r \in DOMAIN mime :
        Uploaded(r) =>
            /\ IF Known(filename[r]) THEN InTable(filename[r], mime[r])
               ELSE IF \A i \in 1 .. Len(filename[r]) : filename[r][i] # Dot
                    THEN mime[r] = "audio/wav"
               ELSE mime[r] = "audio/ogg"
            /\ filename[r] = <<"note", Dot, "flac">> => mime[r] = "audio/flac"
            /\ filename[r] = <<"note", Dot, "xyz">> => mime[r] = "audio/ogg"

C11_Witness ==
    /\ filename[1] = <<"note">>
    /\ mime[1] = "audio/wav"
    /\ primCalls[1] = 1 /\ secCalls[1] = 1

\* Requests that have passed the gate of the primary and whose call the
\* primary has not served yet.
AwaitingPrimary ==
    {r \in DOMAIN pc : pc[r] \in {"stt_primary", "tts_primary"} /\ resp[r] = NoResp}

\* C12 as stated: after primaryBlocked has become true, at most one further
\* call to the primary vendor is made in the whole process.
C12_Original == lateCalls <= 1

\* C12, amended: the race is bounded by the number of requests in flight, not
\* by one: after primaryBlocked has become true, the further calls to the
\* primary are the single calls of the requests that had passed their gate
\* and were not yet served at that moment; no other call is added.
C12_LateCallsBounded ==
    /\ [](~elevenlabs_blocked => lateCalls = 0)
    /\ [](lateCalls <= Cardinality(DOMAIN pc) - 1)
    /\ [][elevenlabs_blocked =>
            lateCalls' + Cardinality(AwaitingPrimary') <= lateCalls + Cardinality(AwaitingPrimary)]_vars

C12_Witness ==
    /\ elevenlabs_blocked
    /\ lateCalls = 2
    /\ \E q, r \in DOMAIN pc : q # r /\ op[q] = "transcribe" /\ op[r] = "synthesize"
                               /\ primCalls[q] = 1 /\ primCalls[r] = 1

PrimaryStage == {"stt_primary", "tts_primary"}
SecondaryStage == {"stt_secondary", "tts_secondary"}

\* C13: a request calls the primary vendor only if primaryBlocked was false
\* when it evaluated its gate; a request that evaluates its gate once the
\* flag is set never calls the primary.
C13_Step(r) ==
    /\ (pc[r] = "idle" /\ pc'[r] # "idle" /\ elevenlabs_blocked)
            => pc'[r] \notin PrimaryStage /\ primCalls'[r] = 0
    /\ (pc'[r] \in PrimaryStage /\ pc[r] \notin PrimaryStage)
            => pc[r] = "idle" /\ ~elevenlabs_blocked
    /\ primCalls'[r] # primCalls[r] => pc[r] \in PrimaryStage
    /\ PastPrimary(r)
C13_PrimaryOnlyIfGateSawFalse == [][\A r \in Requests : C13_Step(r)]_vars

C13_Witness ==
    /\ elevenlabs_blocked /\ lateCalls = 0
    /\ ELEVENLABS_API_KEY /\ ELEVENLABS_VOICE_ID
    /\ \E q, r \in Requests :
        /\ q < r /\ primCalls[q] = 1
        /\ op[r] = "synthesize" /\ pc[r] = "done" /\ primCalls[r] = 0 /\ secCalls[r] = 1

\* C14: within one request each provider is called at most once (no retry),
\* the secondary is not called before the primary attempt has finished, and
\* the request makes at most two vendor calls.
C14_OneAttemptPerProvider ==
    \A r \in Requests :
        /\ primCalls[r] <= 1 /\ secCalls[r] <= 1
        /\ primCalls[r] + secCalls[r] <= 2
        /\ pc[r] \in PrimaryStage \cup {"idle"} => secCalls[r] = 0
        /\ pc[r] = "idle" => primCalls[r] = 0

C14_Witness ==
    \E q, r \in Requests :
        /\ op[q] = "transcribe" /\ pc[q] = "done" /\ primCalls[q] = 1 /\ secCalls[q] = 1
        /\ op[r] = "synthesize" /\ pc[r] = "done" /\ primCalls[r] = 1 /\ secCalls[r] = 1

\* The step in which a transcribe request resumes on the reply of a vendor.
SttReturns(r) ==
    pc[r] \in {"stt_primary", "stt_secondary"} /\ resp[r] # NoResp /\ resp'[r] = NoResp

\* C15: the result of transcribe is never an empty string: it is absent or
\* the non-empty transcript of the reply of a provider called in the request;
\* a success of the primary STT with an empty or missing text is a failed
\* attempt, after which the chain goes on with the secondary STT step.
C15_Step(r) ==
    /\ (SttReturns(r) /\ pc'[r] = "done" /\ result'[r] # None)
            => /\ SuccessStatus(resp[r]) /\ resp[r].json = "object"
               /\ result'[r] = Some(resp[r].content)
               /\ resp[r].content # <<>>
    /\ (/\ PrimarySttReturns(r)
        /\ SuccessStatus(resp[r])
        /\ \/ resp[r].json = "no_text"
           \/ resp[r].json = "object" /\ resp[r].content = <<>>)
            => FallsThrough(r)
C15_TranscriptNeverEmpty ==
    /\ [](\A r \in Requests :
            (op[r] = "transcribe" /\ pc[r] = "done")
                => \/ result[r] = None
                   \/ /\ result[r].some /\ Len(result[r].val) > 0
                      /\ primCalls[r] + secCalls[r] >= 1)
    /\ [][\A r \in Requests : C15_Step(r)]_vars

C15_Witness ==
    /\ ~elevenlabs_blocked /\ warnings = {}
    /\ \E r \in Requests :
        /\ op[r] = "transcribe" /\ pc[r] = "done"
        /\ primCalls[r] = 1 /\ secCalls[r] = 1
        /\ result[r] = Some(<<1>>)

\* C16: a vendor is called only with its configuration present: the primary
\* STT with the API key, the primary TTS with the API key and the voice
\* identifier, the secondary STT with the Groq key.  A missing configuration
\* skips the step and the chain goes on: a synthesize request without a voice
\* identifier never calls the primary TTS and still calls the secondary TTS.
C16_ConfigGates ==
    \A r \in Requests :
        /\ (op[r] = "transcribe" /\ (pc[r] = "stt_primary" \/ primCalls[r] > 0))
                => ELEVENLABS_API_KEY
        /\ (op[r] = "synthesize" /\ (pc[r] = "tts_primary" \/ primCalls[r] > 0))
                => ELEVENLABS_API_KEY /\ ELEVENLABS_VOICE_ID
        /\ (op[r] = "transcribe" /\ (pc[r] = "stt_secondary" \/ secCalls[r] > 0))
                => GROQ_API_KEY
        /\ (op[r] = "synthesize" /\ ~(ELEVENLABS_API_KEY /\ ELEVENLABS_VOICE_ID))
                => /\ primCalls[r] = 0
                   /\ pc[r] \in {"tts_secondary", "done"}
                   /\ pc[r] = "done" => secCalls[r] = 1
        /\ (op[r] = "transcribe" /\ ~ELEVENLABS_API_KEY /\ GROQ_API_KEY)
                => /\ primCalls[r] = 0
                   /\ pc[r] \in {"stt_secondary", "done", "raised"}
                   /\ pc[r] \in {"done", "raised"} => secCalls[r] = 1

C16_Witness ==
    /\ ELEVENLABS_API_KEY /\ ~ELEVENLABS_VOICE_ID
    /\ \E r \in Requests :
        /\ op[r] = "synthesize" /\ pc[r] = "done"
        /\ primCalls[r] = 0 /\ secCalls[r] = 1
        /\ result[r] # None

\* C17: every transcribe and every synthesize request eventually completes
\* by returning a result or absent.
C17_EventuallyReturns ==
    \A r \in Requests : (pc[r] # "idle") ~> (pc[r] = "done")

\* C18: a call of a secondary provider never changes primaryBlocked, whatever
\* it returns; the flag changes only in the step that resumes a request on
\* the reply of the primary vendor.
C18_Step(r) ==
    (pc[r] \in SecondaryStage /\ pc'[r] # pc[r])
        => elevenlabs_blocked' = elevenlabs_blocked /\ warnings' = warnings
C18_SecondaryLeavesFlag ==
    [][/\ \A r \in Requests : C18_Step(r)
       /\ elevenlabs_blocked' # elevenlabs_blocked => \E r \in Requests : PrimaryReturns(r)]_vars

C18_Witness ==
    /\ ~elevenlabs_blocked
    /\ \E q, r \in Requests :
        /\ op[q] = "transcribe" /\ pc[q] = "done" /\ secCalls[q] = 1 /\ result[q] = None
        /\ op[r] = "synthesize" /\ pc[r] = "done" /\ secCalls[r] = 1 /\ result[r] = None

====
